---- MODULE Spec2Model ----
(***************************************************************************)
(* Verification model of the ingestion-and-retrieval pipeline:             *)
(*   backend/chatbot/utils/text_processor.py   (TextProcessor)             *)
(*   backend/python/ingest.py                  (process_document)          *)
(*   backend/nodejs/services/vector_store_service.py (VectorStoreService)  *)
(*   backend/services/embedding_service.py     (EmbeddingService)          *)
(*   backend/services/database_service.py      (DocumentService)           *)
(*   backend/services/chat_service.py          (ChatService)               *)
(*                                                                         *)
(* A Python str is a sequence of one-character strings.                    *)
(***************************************************************************)
EXTENDS Integers, Sequences, FiniteSets, TLC

(***************************************************************************)
(* Bounds of the model.                                                    *)
(***************************************************************************)
\* longest text handed to chunk_text by the chunker specification
MaxLen == 6
\* largest chunk_size / overlap tried by the chunker specification
MaxChunkSize == 4
MaxOverlap == 2
\* number of ingestion runs (calls of process_document) in one behaviour
MaxRuns == 2
\* number of failing environment calls (file read, embedding provider,
\* vector store, database commit) in the ingestion runs of one behaviour
MaxFaults == 1
\* number of ingestion processes that exist
NumRuns == 1
\* chunk_document's defaults (chunk_size=1000, overlap=100) scaled down so
\* that the short file contents below chunk into 0, 1 and 3 chunks
IngestChunkSize == 5
IngestOverlap == 1
\* the VectorStoreService objects that can be under construction at once,
\* and the constructions each of them goes through
NumServices == 2
MaxConstructions == 2
\* the points stored while services are constructed
MaxUpserts == 1
\* the processes that run process_document at once
NumWorkers == 2
\* the chat requests in flight at once
NumRequests == 2

(***************************************************************************)
(* Python string primitives used by TextProcessor.                         *)
(***************************************************************************)
Whitespace == {" ", "\n", "\t"}
SentenceEnd == {".", "!", "?"}
Alphabet == {"a", "b", ".", " "}

Min(a, b) == IF a < b THEN a ELSE b

RECURSIVE lstrip(_)
lstrip(s) == IF s # <<>> /\ Head(s) \in Whitespace THEN lstrip(Tail(s)) ELSE s

RECURSIVE rstrip(_)
rstrip(s) ==
    IF s # <<>> /\ s[Len(s)] \in Whitespace
    THEN rstrip(SubSeq(s, 1, Len(s) - 1))
    ELSE s

\* str.strip()
strip(s) == rstrip(lstrip(s))

RECURSIVE split_scan(_, _, _, _)
split_scan(s, i, words, cur) ==
    IF i > Len(s)
    THEN (IF cur = <<>> THEN words ELSE Append(words, cur))
    ELSE IF s[i] \in Whitespace
         THEN split_scan(s, i + 1,
                         IF cur = <<>> THEN words ELSE Append(words, cur), <<>>)
         ELSE split_scan(s, i + 1, words, Append(cur, s[i]))

\* str.split(): the maximal runs of non-whitespace characters
split(s) == split_scan(s, 1, <<>>, <<>>)

RECURSIVE join(_, _)
\* sep.join(words)
join(sep, words) ==
    IF words = <<>> THEN <<>>
    ELSE IF Len(words) = 1 THEN words[1]
    ELSE words[1] \o sep \o join(sep, Tail(words))

\* words[-k:]  (Python: -0 is 0, so k = 0 selects the whole list)
LastWords(words, k) ==
    IF k = 0 \/ k >= Len(words) THEN words
    ELSE SubSeq(words, Len(words) - k + 1, Len(words))

RECURSIVE skip_ws(_, _)
skip_ws(s, i) == IF i <= Len(s) /\ s[i] \in Whitespace THEN skip_ws(s, i + 1) ELSE i

RECURSIVE re_split_scan(_, _, _, _)
re_split_scan(s, i, parts, cur) ==
    IF i > Len(s) THEN Append(parts, cur)
    ELSE IF s[i] \in Whitespace /\ i > 1 /\ s[i - 1] \in SentenceEnd
         THEN re_split_scan(s, skip_ws(s, i), Append(parts, cur), <<>>)
         ELSE re_split_scan(s, i + 1, parts, Append(cur, s[i]))

\* re.split(r'(?<=[.!?])\s+', text)
split_sentences(text) == re_split_scan(text, 1, <<>>, <<>>)

RECURSIVE SumLen(_)
SumLen(words) == IF words = <<>> THEN 0 ELSE Len(Head(words)) + SumLen(Tail(words))

(***************************************************************************)
(* TextProcessor._split_large_chunk                                        *)
(***************************************************************************)
\* current_size after the overlap words and the new word were taken over
overlap_size(sub) == SumLen(sub) + Len(sub) - 1

RECURSIVE split_large_loop(_, _, _, _, _, _, _)
split_large_loop(words, i, chunks, sub, size, chunk_size, overlap) ==
    IF i > Len(words)
    THEN (IF sub # <<>> THEN Append(chunks, join(<<" ">>, sub)) ELSE chunks)
    ELSE LET word == words[i] IN
         IF size + Len(word) > chunk_size /\ sub # <<>>
         THEN IF overlap > 0
              THEN LET overlap_words ==
                           IF Len(sub) >= overlap
                           THEN SubSeq(sub, Len(sub) - overlap + 1, Len(sub))
                           ELSE sub
                       next_sub == Append(overlap_words, word)
                   IN  split_large_loop(words, i + 1,
                                        Append(chunks, join(<<" ">>, sub)),
                                        next_sub, overlap_size(next_sub),
                                        chunk_size, overlap)
              ELSE split_large_loop(words, i + 1,
                                    Append(chunks, join(<<" ">>, sub)),
                                    <<word>>, Len(word), chunk_size, overlap)
         ELSE split_large_loop(words, i + 1, chunks, Append(sub, word),
                               size + Len(word) + 1, chunk_size, overlap)

split_large_chunk(chunk, chunk_size, overlap) ==
    split_large_loop(split(chunk), 1, <<>>, <<>>, 0, chunk_size, overlap)

(***************************************************************************)
(* TextProcessor.chunk_text                                                *)
(***************************************************************************)
\* variant: the overlap words are put behind the sentence
seed_chunk_sentence_first(current_chunk, sentence, overlap) ==
    IF overlap > 0
    THEN LET words == split(current_chunk)
             overlap_text == join(<<" ">>, LastWords(words, Min(Len(words), overlap)))
         IN  sentence \o <<" ">> \o overlap_text
    ELSE sentence

\* the seed of the chunk that follows a closed chunk
seed_chunk(current_chunk, sentence, overlap) ==
    IF overlap > 0
    THEN LET words == split(current_chunk)
             overlap_text == join(<<" ">>, LastWords(words, Min(Len(words), overlap)))
         IN  overlap_text \o <<" ">> \o sentence
    ELSE sentence

RECURSIVE sentence_loop(_, _, _, _, _, _)
sentence_loop(sentences, i, chunks, current_chunk, chunk_size, overlap) ==
    IF i > Len(sentences)
    THEN (IF current_chunk # <<>> THEN Append(chunks, strip(current_chunk)) ELSE chunks)
    ELSE LET sentence == sentences[i] IN
         IF Len(current_chunk) + Len(sentence) > chunk_size
         THEN IF current_chunk # <<>>
              THEN sentence_loop(sentences, i + 1,
                                 Append(chunks, strip(current_chunk)),
                                 seed_chunk(current_chunk, sentence, overlap),
                                 chunk_size, overlap)
              ELSE sentence_loop(sentences, i + 1,
                                 Append(chunks, strip(sentence)), <<>>,
                                 chunk_size, overlap)
         ELSE sentence_loop(sentences, i + 1, chunks,
                            IF current_chunk # <<>>
                            THEN current_chunk \o <<" ">> \o sentence
                            ELSE sentence,
                            chunk_size, overlap)

RECURSIVE final_pass(_, _, _)
final_pass(chunks, chunk_size, overlap) ==
    IF chunks = <<>> THEN <<>>
    ELSE (IF Len(Head(chunks)) > chunk_size
          THEN split_large_chunk(Head(chunks), chunk_size, overlap)
          ELSE <<Head(chunks)>>)
         \o final_pass(Tail(chunks), chunk_size, overlap)

chunk_text(text, chunk_size, overlap) ==
    final_pass(sentence_loop(split_sentences(text), 1, <<>>, <<>>, chunk_size, overlap),
               chunk_size, overlap)

(***************************************************************************)
(* TextProcessor.clean_text                                                *)
(***************************************************************************)
RECURSIVE sub_whitespace(_, _)
\* re.sub(r'\s+', ' ', text): every maximal run of whitespace characters,
\* newlines included, becomes one space
sub_whitespace(s, i) ==
    IF i > Len(s) THEN <<>>
    ELSE IF s[i] \in Whitespace
         THEN <<" ">> \o sub_whitespace(s, skip_ws(s, i))
         ELSE <<s[i]>> \o sub_whitespace(s, i + 1)

\* the position of the last newline in s[from..to], or 0 when there is none
last_newline(s, from, to) ==
    LET at == {j \in from..to : s[j] = "\n"}
    IN  IF at = {} THEN 0 ELSE CHOOSE j \in at : \A k \in at : k <= j

RECURSIVE sub_newlines(_, _)
\* re.sub(r'\n\s*\n', '\n\n', text): a newline, the whitespace after it up
\* to the last newline of the run, and that newline become two newlines
sub_newlines(s, i) ==
    IF i > Len(s) THEN <<>>
    ELSE LET closing == IF s[i] = "\n"
                        THEN last_newline(s, i + 1, skip_ws(s, i + 1) - 1)
                        ELSE 0
         IN  IF closing > 0
             THEN <<"\n", "\n">> \o sub_newlines(s, closing + 1)
             ELSE <<s[i]>> \o sub_newlines(s, i + 1)

clean_text(text) == strip(sub_newlines(sub_whitespace(text, 1), 1))


(***************************************************************************)
(* State.                                                                  *)
(***************************************************************************)
VARIABLES
    files,       \* the docs/ directory: source path -> current file content
    documents,   \* rows of table documents
    chunks,      \* rows of table document_chunks
    index,       \* points of the Qdrant collection "document_chunks"
    uuids,       \* number of uuid4 values generated so far
    run,         \* per ingestion process: position inside process_document
    started,     \* number of process_document calls made so far
    faults,      \* number of environment calls that failed during ingestion
    last,        \* record of the call of process_document that ended last
    chat,        \* outcome of the latest get_context_aware_response call
    ck,          \* chunker specification: input and result of chunk_text
    batch,       \* main of ingest.py: the discovered list and the loop position
    collections, \* the collections of the Qdrant server
    svc,         \* per VectorStoreService under construction: position in __init__
    req          \* per chat request in flight: its locals

vars == <<files, documents, chunks, index, uuids, run, started, faults, last, chat, ck,
          batch, collections, svc, req>>

Paths == {"docs/a.md", "docs/b.md"}
Runs == 1..NumRuns

\* Path(file_path).stem
stem(p) == IF p = "docs/a.md" THEN "a" ELSE "b"

TextEmpty == <<>>
TextOne == <<"b", ".">>
TextMany == <<"a", "a", "a", "a", ".", " ", "b", "b", "b", ".">>
FileTexts == {TextEmpty, TextOne, TextMany}

\* the id that stands for None in an id column
NullId == 0

\* calculate_content_hash: SHA-256 is modelled as an injective tagging
calculate_content_hash(content) == <<"sha256">> \o content

NoDoc == [id |-> NullId, source_path |-> "none", title |-> "none",
          content_hash |-> <<>>, is_processed |-> FALSE]

(***************************************************************************)
(* chunk_document (ingest.py)                                              *)
(***************************************************************************)
chunk_document(content, chunk_size, overlap) ==
    LET cs == chunk_text(content, chunk_size, overlap)
    IN  [i \in 1..Len(cs) |->
            [index |-> i - 1, content |-> cs[i], token_count |-> Len(split(cs[i]))]]

(***************************************************************************)
(* DocumentService                                                         *)
(***************************************************************************)
\* the rows .filter(Document.source_path == source_path) selects; .first()
\* returns one of them, or None when there is none
documents_by_source_path(docs, source_path) ==
    {d \in docs : d.source_path = source_path}

get_document_by_id(docs, document_id) ==
    {d \in docs : d.id = document_id}

create_document(docs, id, source_path, title, content_hash) ==
    docs \cup {[id |-> id, source_path |-> source_path, title |-> title,
                content_hash |-> content_hash, is_processed |-> FALSE]}

create_document_chunk(rows, id, document_id, chunk_index, content, token_count, vector_id) ==
    rows \cup {[id |-> id, document_id |-> document_id, chunk_index |-> chunk_index,
                content |-> content, token_count |-> token_count,
                vector_id |-> vector_id]}

\* variant: the rows of the other documents are dropped
update_document_processed_status_only(docs, document_id, is_processed) ==
    {[d EXCEPT !.is_processed = is_processed] : d \in get_document_by_id(docs, document_id)}

update_document_processed_status(docs, document_id, is_processed) ==
    {IF d.id = document_id THEN [d EXCEPT !.is_processed = is_processed] ELSE d
        : d \in docs}

\* db.commit() flushes the attribute change doc.content_hash = content_hash
\* that process_document made on the existing Document
flush_content_hash(docs, r) ==
    IF r.pending_hash
    THEN {IF d.id = r.doc_id THEN [d EXCEPT !.content_hash = r.content_hash] ELSE d
            : d \in docs}
    ELSE docs

get_document_chunks(rows, document_id) == {c \in rows : c.document_id = document_id}

(***************************************************************************)
(* EmbeddingService                                                        *)
(***************************************************************************)
\* one vector per text, or [] when the provider call raised
create_embeddings(texts, provider_ok) ==
    IF provider_ok THEN [i \in 1..Len(texts) |-> "vector"] ELSE <<>>

\* variant: a failed provider call yields a default vector
create_embedding_default(text, provider_ok) == "vector"

\* embeddings[0] if embeddings else []
create_embedding(text, provider_ok) ==
    LET embeddings == create_embeddings(<<text>>, provider_ok)
    IN  IF embeddings # <<>> THEN embeddings[1] ELSE "empty"

(***************************************************************************)
(* VectorStoreService                                                      *)
(***************************************************************************)
\* client.scroll(scroll_filter source_path == value, limit=10000) returns the
\* pair (records, next_page_offset); the offset is None because the
\* collection holds fewer points than the limit
scroll(idx, source_path) ==
    [records |-> {pt \in idx : pt.payload.source_path = source_path},
     next_page_offset |-> "None"]

\* [point.id for point, _ in points]: `points` is the pair scroll returned,
\* so the comprehension visits its two elements and unpacks each of them
\* into (point, _): the record list unpacks only when it holds exactly two
\* records, and the offset None never unpacks (TypeError)
ids_to_delete(points) ==
    LET records_unpack == Cardinality(points.records) = 2
        offset_unpacks == points.next_page_offset # "None"
    IN  IF records_unpack /\ offset_unpacks
        THEN [raised |-> FALSE,
              ids |-> {(CHOOSE pt \in points.records : TRUE).id}]
        ELSE [raised |-> TRUE, ids |-> {}]

\* the except clause turns every error into a no-op
delete_by_source_path(idx, source_path, store_ok) ==
    IF ~store_ok THEN idx
    ELSE LET selected == ids_to_delete(scroll(idx, source_path))
         IN  IF selected.raised \/ selected.ids = {} THEN idx
             ELSE {pt \in idx : pt.id \notin selected.ids}

\* variant: the ids are the positions of the texts in the list
new_ids_by_position(first_id, n) == [i \in 1..n |-> i]

\* [str(uuid.uuid4()) for _ in range(len(texts))]: n ids that were never
\* handed out before (first_id is the number of ids handed out so far)
new_ids(first_id, n) == [i \in 1..n |-> first_id + i]

\* client.upsert: a point takes the place of the stored point of its id, if
\* there is one, and is added otherwise
upsert(idx, points) ==
    {pt \in idx : \A new \in points : new.id # pt.id} \cup points

\* variant: one embeddings.create per text
store_calls_per_text(texts, ids, zipped) ==
    [i \in 1..Len(texts) |-> [op |-> "embeddings.create", input |-> <<texts[i]>>]]
        \o <<[op |-> "upsert", input |-> SubSeq(ids, 1, zipped)]>>

\* the calls store_embeddings makes to the services outside the process, in
\* the order of the code: one embeddings.create for the whole list of texts
\* (inside create_embeddings), then one upsert of the points built
store_calls(texts, ids, zipped) ==
    <<[op |-> "embeddings.create", input |-> texts],
      [op |-> "upsert", input |-> SubSeq(ids, 1, zipped)]>>

\* variant: the payload is the metadata alone, the text is not added to it
store_embeddings_without_text(idx, texts, metadata, first_id, provider_ok, store_ok, seq) ==
    LET embeddings == create_embeddings(texts, provider_ok)
        ids == new_ids(first_id, Len(texts))
        zipped == Min(Len(texts), Len(embeddings))
        points == {[id |-> ids[i],
                    vector |-> embeddings[i],
                    payload |-> [source_path |-> metadata[i].source_path,
                                 document_id |-> metadata[i].document_id,
                                 chunk_index |-> metadata[i].chunk_index],
                    written_by |-> seq] : i \in 1..zipped}
    IN  IF store_ok
        THEN [index |-> upsert(idx, points), ids |-> ids,
              calls |-> store_calls(texts, ids, zipped)]
        ELSE [index |-> idx, ids |-> <<>>,
              calls |-> store_calls(texts, ids, zipped)]

\* returns the new collection and the list of ids handed back to the caller;
\* written_by is a history field: the call of process_document that wrote
\* the point
store_embeddings(idx, texts, metadata, first_id, provider_ok, store_ok, seq) ==
    LET embeddings == create_embeddings(texts, provider_ok)
        ids == new_ids(first_id, Len(texts))
        zipped == Min(Len(texts), Len(embeddings))
        points == {[id |-> ids[i],
                    vector |-> embeddings[i],
                    payload |-> [source_path |-> metadata[i].source_path,
                                 document_id |-> metadata[i].document_id,
                                 chunk_index |-> metadata[i].chunk_index,
                                 text |-> texts[i]],
                    written_by |-> seq] : i \in 1..zipped}
    IN  IF store_ok
        THEN [index |-> upsert(idx, points), ids |-> ids,
              calls |-> store_calls(texts, ids, zipped)]
        ELSE [index |-> idx, ids |-> <<>>,
              calls |-> store_calls(texts, ids, zipped)]

(***************************************************************************)
(* process_document (ingest.py), one action per step of the function.      *)
(***************************************************************************)
\* the outcomes an environment call can have: it succeeds (TRUE), or it
\* raises (FALSE) while the fault budget lasts
Outcomes == IF faults < MaxFaults THEN BOOLEAN ELSE {TRUE}
Fault(ok) == IF ok THEN 0 ELSE 1

\* calls is a history field: the calls the run made to the embedding
\* provider and to the vector store, in order
IdleRun ==
    [pc |-> "idle", seq |-> 0, path |-> "none", kind |-> "none",
     content |-> <<>>, content_hash |-> <<>>, doc_id |-> NullId,
     pre_doc |-> NoDoc, pending_hash |-> FALSE,
     chunk_data |-> <<>>, vector_ids |-> <<>>, i |-> 0,
     read_ok |-> TRUE, delete_ok |-> TRUE, embed_ok |-> TRUE,
     upsert_ok |-> TRUE, db_ok |-> TRUE, marked |-> FALSE, result |-> "none",
     calls |-> <<>>]

\* the call ends: by return, or by an exception that main's loop catches
Finish(r, rec, result) ==
    /\ last' = [rec EXCEPT !.pc = "idle", !.result = result]
    /\ run' = [run EXCEPT ![r] = IdleRun]

\* variant: a Document only counts as unchanged once it is processed
hash_unchanged_flag(existing_doc, content_hash) ==
    existing_doc.content_hash = content_hash /\ existing_doc.is_processed

\* existing_doc.content_hash == content_hash
hash_unchanged(existing_doc, content_hash) ==
    existing_doc.content_hash = content_hash

\* lines 56-76: read the file, hash it, look the Document up, classify
Start(r, p) ==
    /\ run[r].pc = "idle"
    /\ started < MaxRuns
    /\ started' = started + 1
    /\ \E read_ok \in Outcomes :
         /\ faults' = faults + Fault(read_ok)
         /\ LET rec == [IdleRun EXCEPT !.seq = started + 1, !.path = p,
                                       !.read_ok = read_ok]
            IN  IF ~read_ok
                THEN /\ Finish(r, [rec EXCEPT !.kind = "unread"], "error")
                     /\ UNCHANGED <<files, documents, chunks, index, uuids, chat, ck, collections, svc, req>>
                ELSE LET content == files[p]
                         content_hash == calculate_content_hash(content)
                         found == documents_by_source_path(documents, p)
                     IN  \E existing_doc \in (IF found = {} THEN {NoDoc} ELSE found) :
                           LET rec2 == [rec EXCEPT !.content = content,
                                                   !.content_hash = content_hash,
                                                   !.pre_doc = existing_doc,
                                                   !.doc_id = existing_doc.id]
                           IN  /\ IF existing_doc # NoDoc
                                  THEN IF hash_unchanged(existing_doc, content_hash)
                                       THEN Finish(r, [rec2 EXCEPT !.kind = "unchanged"], "ok")
                                       ELSE /\ run' = [run EXCEPT ![r] =
                                                   [rec2 EXCEPT !.kind = "changed", !.pc = "delete"]]
                                            /\ UNCHANGED last
                                  ELSE /\ run' = [run EXCEPT ![r] =
                                                   [rec2 EXCEPT !.kind = "new", !.pc = "create"]]
                                       /\ UNCHANGED last
                               /\ UNCHANGED <<files, documents, chunks, index, uuids, chat, ck, collections, svc, req>>

\* lines 76-82: the changed branch deletes the old embeddings and assigns the
\* new hash to the loaded Document (written by the next commit)
DeleteOld(r) ==
    /\ run[r].pc = "delete"
    /\ \E store_ok \in Outcomes :
         /\ faults' = faults + Fault(store_ok)
         /\ index' = delete_by_source_path(index, run[r].path, store_ok)
         /\ run' = [run EXCEPT ![r].pc = "store", ![r].pending_hash = TRUE,
                               ![r].delete_ok = store_ok,
                               ![r].calls = Append(@, [op |-> "scroll",
                                                       input |-> <<run[r].path>>])]
    /\ UNCHANGED <<files, documents, chunks, uuids, started, last, chat, ck,
                   batch, collections, svc, req>>

\* lines 84-89: the new branch creates the Document row
CreateDoc(r) ==
    /\ run[r].pc = "create"
    /\ \E db_ok \in Outcomes :
         /\ faults' = faults + Fault(db_ok)
         /\ IF db_ok
            THEN /\ documents' = create_document(documents, uuids + 1, run[r].path,
                                                 stem(run[r].path), run[r].content_hash)
                 /\ uuids' = uuids + 1
                 /\ run' = [run EXCEPT ![r].pc = "store", ![r].doc_id = uuids + 1]
                 /\ UNCHANGED last
            ELSE /\ Finish(r, [run[r] EXCEPT !.db_ok = FALSE], "error")
                 /\ UNCHANGED <<documents, uuids>>
    /\ UNCHANGED <<files, chunks, index, started, chat, ck,
                   batch, collections, svc, req>>

\* lines 91-106: chunk, build texts and metadata, store_embeddings
Store(r) ==
    /\ run[r].pc = "store"
    /\ \E provider_ok \in Outcomes, store_ok \in Outcomes :
         /\ faults + Fault(provider_ok) + Fault(store_ok) <= MaxFaults
         /\ faults' = faults + Fault(provider_ok) + Fault(store_ok)
         /\ \E chunk_data \in {chunk_document(run[r].content, IngestChunkSize, IngestOverlap)} :
            LET texts == [i \in 1..Len(chunk_data) |-> chunk_data[i].content]
                metadata == [i \in 1..Len(chunk_data) |->
                               [source_path |-> run[r].path,
                                document_id |-> run[r].doc_id,
                                chunk_index |-> chunk_data[i].index]]
                stored == store_embeddings(index, texts, metadata, uuids,
                                           provider_ok, store_ok, run[r].seq)
            IN  /\ index' = stored.index
                /\ uuids' = uuids + Len(texts)
                /\ run' = [run EXCEPT ![r].pc = "chunks",
                                      ![r].chunk_data = chunk_data,
                                      ![r].vector_ids = stored.ids,
                                      ![r].i = 0,
                                      ![r].embed_ok = provider_ok,
                                      ![r].upsert_ok = store_ok,
                                      ![r].calls = @ \o stored.calls]
    /\ UNCHANGED <<files, documents, chunks, started, last, chat, ck,
                   batch, collections, svc, req>>

\* lines 109-117: one create_document_chunk (one commit) per loop iteration
CreateChunk(r) ==
    /\ run[r].pc = "chunks"
    /\ run[r].i < Len(run[r].chunk_data)
    /\ \E db_ok \in Outcomes :
         /\ faults' = faults + Fault(db_ok)
         /\ IF db_ok
            THEN LET i == run[r].i
                     chunk == run[r].chunk_data[i + 1]
                     vector_id == IF i < Len(run[r].vector_ids)
                                  THEN run[r].vector_ids[i + 1] ELSE NullId
                 IN  /\ chunks' = create_document_chunk(chunks, uuids + 1, run[r].doc_id,
                                       chunk.index, chunk.content, chunk.token_count,
                                       vector_id)
                     /\ documents' = flush_content_hash(documents, run[r])
                     /\ uuids' = uuids + 1
                     /\ run' = [run EXCEPT ![r].i = i + 1, ![r].pending_hash = FALSE]
                     /\ UNCHANGED last
            ELSE /\ Finish(r, [run[r] EXCEPT !.db_ok = FALSE], "error")
                 /\ UNCHANGED <<documents, chunks, uuids>>
    /\ UNCHANGED <<files, index, started, chat, ck,
                   batch, collections, svc, req>>

\* lines 119-121: update_document_processed_status(db_session, doc.id, True)
MarkProcessed(r) ==
    /\ run[r].pc = "chunks"
    /\ run[r].i = Len(run[r].chunk_data)
    /\ \E db_ok \in Outcomes :
         /\ faults' = faults + Fault(db_ok)
         /\ IF db_ok
            THEN /\ documents' = update_document_processed_status(
                                     flush_content_hash(documents, run[r]),
                                     run[r].doc_id, TRUE)
                 /\ Finish(r, [run[r] EXCEPT !.marked = TRUE, !.pending_hash = FALSE], "ok")
            ELSE /\ Finish(r, [run[r] EXCEPT !.db_ok = FALSE], "error")
                 /\ UNCHANGED documents
    /\ UNCHANGED <<files, chunks, index, uuids, started, chat, ck,
                   batch, collections, svc, req>>

\* the docs/ directory is edited.  A run reads its file once, at its start,
\* so an edit made during a run acts like one made right after it: edits
\* are taken between runs
EditFile(p, content) ==
    /\ \A r \in Runs : run[r].pc = "idle"
    /\ files[p] # content
    /\ files' = [files EXCEPT ![p] = content]
    /\ UNCHANGED <<documents, chunks, index, uuids, run, started, faults, last, chat, ck,
                   batch, collections, svc, req>>

(***************************************************************************)
(* VectorStoreService.search_similar and ChatService                       *)
(***************************************************************************)
\* default of search_similar's limit parameter
SearchLimit == 5
\* context_texts[:3]
ContextTop == 3

\* similarity of a point to the query, as the store computes it (scaled)
Score(pt, query_text) == (pt.id * 3 + Len(query_text)) % 5

Outranks(x, y, query_text) ==
    \/ Score(x, query_text) > Score(y, query_text)
    \/ Score(x, query_text) = Score(y, query_text) /\ x.id <= y.id

RECURSIVE Ranked(_, _)
Ranked(pts, query_text) ==
    IF pts = {} THEN <<>>
    ELSE LET best == CHOOSE x \in pts : \A y \in pts : Outranks(x, y, query_text)
         IN  <<best>> \o Ranked(pts \ {best}, query_text)

\* client.search(query_vector, limit): the ranked hits, best first
client_search(idx, query_text, limit) ==
    LET ranked == Ranked(idx, query_text)
    IN  SubSeq(ranked, 1, Min(limit, Len(ranked)))

\* variant: the results are handed back in reverse order
search_similar_reversed(idx, query_text, limit, provider_ok, store_ok) ==
    LET query_embedding == create_embedding(query_text, provider_ok)
        search_results == client_search(idx, query_text, limit)
        n == Len(search_results)
    IN  IF query_embedding = "empty" \/ ~store_ok THEN <<>>
        ELSE [i \in 1..n |->
                [id |-> search_results[n + 1 - i].id,
                 text |-> search_results[n + 1 - i].payload.text,
                 score |-> Score(search_results[n + 1 - i], query_text),
                 metadata |-> [source_path |-> search_results[n + 1 - i].payload.source_path,
                               document_id |-> search_results[n + 1 - i].payload.document_id,
                               chunk_index |-> search_results[n + 1 - i].payload.chunk_index]]]

\* the results list, or [] when the embedding or the store call raised; an
\* empty query vector (failed embedding) is rejected by the store
search_similar(idx, query_text, limit, provider_ok, store_ok) ==
    LET query_embedding == create_embedding(query_text, provider_ok)
        search_results == client_search(idx, query_text, limit)
    IN  IF query_embedding = "empty" \/ ~store_ok THEN <<>>
        ELSE [i \in 1..Len(search_results) |->
                [id |-> search_results[i].id,
                 text |-> search_results[i].payload.text,
                 score |-> Score(search_results[i], query_text),
                 metadata |-> [source_path |-> search_results[i].payload.source_path,
                               document_id |-> search_results[i].payload.document_id,
                               chunk_index |-> search_results[i].payload.chunk_index]]]

\* Optional[str]: None, or a given string
None == [given |-> FALSE, text |-> <<>>]
Some(text) == [given |-> TRUE, text |-> text]

\* variant: the test of `if selected_text:` inverted
truthy_inverted(selected_text) == ~(selected_text.given /\ selected_text.text # <<>>)

\* `if selected_text:` -- None and the empty string are both falsy
truthy(selected_text) == selected_text.given /\ selected_text.text # <<>>

\* variant: the slice takes one result too many
top_results_all(context_texts) ==
    SubSeq(context_texts, 1, Min(ContextTop + 1, Len(context_texts)))

\* context_texts[:3]
top_results(context_texts) ==
    SubSeq(context_texts, 1, Min(ContextTop, Len(context_texts)))

NoChat ==
    [calls |-> 0, user_message |-> <<>>, selected_text |-> None,
     search_calls |-> 0, search_limit |-> 0, search_results |-> <<>>,
     context_texts |-> <<>>, context_used |-> <<>>, context |-> <<>>,
     prompt |-> "none", sources |-> <<>>, response |-> "none"]

get_context_aware_response(idx, user_message, selected_text, provider_ok, store_ok, llm_ok) ==
    LET use_selected == truthy(selected_text)
        search_results == IF use_selected THEN <<>>
                          ELSE search_similar(idx, user_message, SearchLimit,
                                              provider_ok, store_ok)
        context_texts == IF use_selected THEN <<selected_text.text>>
                         ELSE [i \in 1..Len(search_results) |-> search_results[i].text]
        context_used == top_results(context_texts)
    IN  [calls |-> 1,
         user_message |-> user_message,
         selected_text |-> selected_text,
         search_calls |-> IF use_selected THEN 0 ELSE 1,
         search_limit |-> IF use_selected THEN 0 ELSE SearchLimit,
         search_results |-> search_results,
         context_texts |-> context_texts,
         context_used |-> IF context_texts # <<>> THEN context_used ELSE <<>>,
         context |-> IF context_texts # <<>>
                     THEN join(<<"\n", "\n">>, context_used) ELSE <<>>,
         prompt |-> IF context_texts # <<>> THEN "context" ELSE "general",
         sources |-> IF llm_ok /\ context_texts # <<>>
                     THEN <<"textbook_content">> ELSE <<>>,
         response |-> IF llm_ok THEN "answer" ELSE "error"]

UserMessages == {<<"q">>}
SelectedTexts == {None, Some(<<>>), Some(<<"X", " ", "y">>)}

Query(user_message, selected_text) ==
    /\ \E provider_ok \in BOOLEAN, store_ok \in BOOLEAN, llm_ok \in BOOLEAN :
         chat' = get_context_aware_response(index, user_message, selected_text,
                                            provider_ok, store_ok, llm_ok)
    /\ UNCHANGED <<files, documents, chunks, index, uuids, run, started, faults, last, ck,
                   batch, collections, svc, req>>

(***************************************************************************)
(* VectorStoreService.__init__ and _create_collection                      *)
(***************************************************************************)
\* self.collection_name = "document_chunks"
collection_name == "document_chunks"

\* models.VectorParams(size=1536, distance=models.Distance.COSINE)
VectorSize == 1536
Cosine == "Cosine"

DocumentChunks == [name |-> collection_name, size |-> VectorSize, distance |-> Cosine]

\* collections the server may hold before the first construction: one of
\* another application, and a document_chunks made earlier with another metric
OtherCollection == [name |-> "other", size |-> VectorSize, distance |-> "Dot"]
EarlierChunks == [name |-> collection_name, size |-> VectorSize, distance |-> "Dot"]

Services == 1..NumServices

\* any(col.name == self.collection_name for col in collections.collections)
collection_exists(colls) == \E col \in colls : col.name = collection_name

\* variant: the collection is dropped and created again
create_collection_recreating(colls, idx, name, size, distance) ==
    [raised |-> FALSE,
     collections |-> {col \in colls : col.name # name}
                        \cup {[name |-> name, size |-> size, distance |-> distance]},
     index |-> IF name = collection_name THEN {} ELSE idx]

\* client.create_collection: the server refuses a name that is in use
create_collection(colls, idx, name, size, distance) ==
    IF \E col \in colls : col.name = name
    THEN [raised |-> TRUE, collections |-> colls, index |-> idx]
    ELSE [raised |-> FALSE,
          collections |-> colls \cup {[name |-> name, size |-> size,
                                       distance |-> distance]},
          index |-> idx]

\* _create_collection run in one piece; the except clause swallows a raise
create_collection_if_absent(colls, idx, list_ok, create_ok) ==
    IF ~list_ok \/ collection_exists(colls) \/ ~create_ok
    THEN [collections |-> colls, index |-> idx]
    ELSE LET made == create_collection(colls, idx, collection_name, VectorSize, Cosine)
         IN  [collections |-> made.collections, index |-> made.index]

\* built counts the constructions begun; failed tells that a call of the
\* latest construction raised
NoSvc == [pc |-> "none", collection_exists |-> FALSE, failed |-> FALSE, built |-> 0]
ReadySvc == [pc |-> "ready", collection_exists |-> TRUE, failed |-> FALSE, built |-> 1]

\* VectorStoreService() is called: lines 8-19
Construct(s) ==
    /\ svc[s].pc \in {"none", "ready"}
    /\ svc[s].built < MaxConstructions
    /\ svc' = [svc EXCEPT ![s] = [pc |-> "new", collection_exists |-> FALSE,
                                  failed |-> FALSE, built |-> svc[s].built + 1]]
    /\ UNCHANGED <<files, documents, chunks, index, uuids, run, started, faults, last,
                   chat, ck, batch, collections, req>>

\* lines 23-25: get_collections and the test for the name
GetCollections(s) ==
    /\ svc[s].pc = "new"
    /\ \E list_ok \in Outcomes :
         /\ faults' = faults + Fault(list_ok)
         /\ IF list_ok
            THEN LET exists == collection_exists(collections)
                 IN  svc' = [svc EXCEPT ![s].pc = IF exists THEN "ready" ELSE "create",
                                        ![s].collection_exists = exists]
            ELSE svc' = [svc EXCEPT ![s].pc = "ready", ![s].failed = TRUE]
    /\ UNCHANGED <<files, documents, chunks, index, uuids, run, started, last,
                   chat, ck, batch, collections, req>>

\* lines 27-36: create_collection when the name was not found
CreateCollection(s) ==
    /\ svc[s].pc = "create"
    /\ \E create_ok \in Outcomes :
         /\ faults' = faults + Fault(create_ok)
         /\ LET made == create_collection(collections, index, collection_name,
                                          VectorSize, Cosine)
            IN  IF create_ok
                THEN /\ collections' = made.collections
                     /\ index' = made.index
                     /\ svc' = [svc EXCEPT ![s].pc = "ready", ![s].failed = made.raised]
                ELSE /\ svc' = [svc EXCEPT ![s].pc = "ready", ![s].failed = TRUE]
                     /\ UNCHANGED <<collections, index>>
    /\ UNCHANGED <<files, documents, chunks, uuids, run, started, last,
                   chat, ck, batch, req>>

\* a constructed service stores the embedding of one text
UpsertPoint(s) ==
    /\ svc[s].pc = "ready"
    /\ collection_exists(collections)
    /\ Cardinality({pt \in index : pt.written_by = 0}) < MaxUpserts
    /\ LET stored == store_embeddings(index, <<TextOne>>,
                         <<[source_path |-> "docs/a.md", document_id |-> NullId,
                            chunk_index |-> 0]>>, uuids, TRUE, TRUE, 0)
       IN  /\ index' = stored.index
           /\ uuids' = uuids + 1
    /\ UNCHANGED <<files, documents, chunks, run, started, faults, last,
                   chat, ck, batch, collections, svc, req>>

(***************************************************************************)
(* main (ingest.py): the batch over the discovered files.                  *)
(***************************************************************************)
\* no call of process_document is under way
AllIdle == \A r \in Runs : run[r].pc = "idle"

NoBatch == [pc |-> "none", md_files |-> <<>>, pos |-> 0, passed |-> <<>>,
            outcomes |-> <<>>]

\* list(docs_path.rglob("*.md")): the files of the directory, each once, in
\* the order the file system lists them
get_all_md_files(docs_dir) ==
    {md_files \in [1..Cardinality(docs_dir) -> docs_dir] :
        \A i, j \in 1..Cardinality(docs_dir) : md_files[i] = md_files[j] => i = j}

\* variant: the handler lets the error of process_document through
continue_after_reraising(result) == result = "ok"

\* try: process_document(...) / except Exception: print, continue -- the
\* loop goes on after a return and after a raised Exception alike
continue_after(result) == result \in {"ok", "error"}

\* what the loop has seen of the calls made so far: passed holds the files
\* handed to process_document, outcomes how each of the ended calls ended
Observed(b) ==
    IF b.pos > Len(b.outcomes) THEN [b EXCEPT !.outcomes = Append(@, last.result)] ELSE b

\* lines 124-134: the services are constructed and the files discovered
MainStart ==
    /\ batch.pc = "start"
    /\ \E list_ok \in Outcomes, create_ok \in Outcomes, docs_dir \in SUBSET Paths :
         \E md_files \in get_all_md_files(docs_dir) :
            LET made == create_collection_if_absent(collections, index, list_ok, create_ok)
            IN  /\ create_ok \/ (list_ok /\ ~collection_exists(collections))
                /\ faults + Fault(list_ok) + Fault(create_ok) <= MaxFaults
                /\ faults' = faults + Fault(list_ok) + Fault(create_ok)
                /\ collections' = made.collections
                /\ index' = made.index
                /\ batch' = [batch EXCEPT !.pc = "loop", !.md_files = md_files]
    /\ UNCHANGED <<files, documents, chunks, uuids, run, started, last, chat, ck,
                   svc, req>>

\* lines 138-141: the next file of the list is handed to process_document
LoopCall ==
    /\ batch.pc = "loop"
    /\ AllIdle
    /\ batch.pos < Len(batch.md_files)
    /\ batch.pos > 0 => continue_after(last.result)
    /\ Start(1, batch.md_files[batch.pos + 1])
    /\ batch' = [Observed(batch) EXCEPT !.pos = @ + 1,
                    !.passed = Append(@, batch.md_files[batch.pos + 1])]

\* lines 141-145: the loop is left, at the end of the list or by an error
\* that the handler does not catch
LoopEnd ==
    /\ batch.pc = "loop"
    /\ AllIdle
    /\ IF batch.pos > 0 /\ ~continue_after(last.result)
       THEN batch' = [Observed(batch) EXCEPT !.pc = "aborted"]
       ELSE /\ batch.pos = Len(batch.md_files)
            /\ batch' = [Observed(batch) EXCEPT !.pc = "done"]
    /\ UNCHANGED <<files, documents, chunks, index, uuids, run, started, faults, last,
                   chat, ck, collections, svc, req>>

(***************************************************************************)
(* Chat requests served concurrently by the one ChatService of chat.py.    *)
(***************************************************************************)
Requests == 1..NumRequests

NoRequest == [pc |-> "idle", user_message |-> <<>>, selected_text |-> None,
              search_calls |-> 0, search_results |-> <<>>, context_texts |-> <<>>]

ServeMessages == {<<"q">>, <<"q", "q">>}

\* variant: an empty result falls back on the context of the call before
context_of_results_cached(search_results) ==
    IF search_results = <<>> THEN chat.context_texts
    ELSE [i \in 1..Len(search_results) |-> search_results[i].text]

\* context_texts = [result["text"] for result in search_results]
context_of_results(search_results) ==
    [i \in 1..Len(search_results) |-> search_results[i].text]

\* lines 17-27: the call begins; a truthy selected_text is the context
Receive(q, user_message, selected_text) ==
    /\ req[q].pc = "idle"
    /\ req' = [req EXCEPT ![q] =
                 [NoRequest EXCEPT
                    !.pc = IF truthy(selected_text) THEN "respond" ELSE "search",
                    !.user_message = user_message,
                    !.selected_text = selected_text,
                    !.context_texts = IF truthy(selected_text)
                                      THEN <<selected_text.text>> ELSE <<>>]]
    /\ UNCHANGED <<files, documents, chunks, index, uuids, run, started, faults, last,
                   chat, ck, batch, collections, svc>>

\* lines 28-31: search_similar(user_message)
Search(q) ==
    /\ req[q].pc = "search"
    /\ \E provider_ok \in BOOLEAN, store_ok \in BOOLEAN :
         LET search_results == search_similar(index, req[q].user_message, SearchLimit,
                                              provider_ok, store_ok)
         IN  req' = [req EXCEPT ![q].pc = "respond",
                                ![q].search_calls = 1,
                                ![q].search_results = search_results,
                                ![q].context_texts = context_of_results(search_results)]
    /\ UNCHANGED <<files, documents, chunks, index, uuids, run, started, faults, last,
                   chat, ck, batch, collections, svc>>

\* lines 33-79: the prompt is built, the model called, the answer returned
Respond(q) ==
    /\ req[q].pc = "respond"
    /\ \E llm_ok \in BOOLEAN :
         LET context_texts == req[q].context_texts
             context_used == top_results(context_texts)
         IN  chat' = [calls |-> 1,
                      user_message |-> req[q].user_message,
                      selected_text |-> req[q].selected_text,
                      search_calls |-> req[q].search_calls,
                      search_limit |-> IF req[q].search_calls = 0 THEN 0 ELSE SearchLimit,
                      search_results |-> req[q].search_results,
                      context_texts |-> context_texts,
                      context_used |-> IF context_texts # <<>> THEN context_used ELSE <<>>,
                      context |-> IF context_texts # <<>>
                                  THEN join(<<"\n", "\n">>, context_used) ELSE <<>>,
                      prompt |-> IF context_texts # <<>> THEN "context" ELSE "general",
                      sources |-> IF llm_ok /\ context_texts # <<>>
                                  THEN <<"textbook_content">> ELSE <<>>,
                      response |-> IF llm_ok THEN "answer" ELSE "error"]
    /\ req' = [req EXCEPT ![q] = NoRequest]
    /\ UNCHANGED <<files, documents, chunks, index, uuids, run, started, faults, last,
                   ck, batch, collections, svc>>

\* the parts of the state that a specification leaves at rest
OthersAtRest ==
    /\ batch = NoBatch
    /\ collections = {DocumentChunks}
    /\ svc = [s \in Services |-> ReadySvc]
    /\ req = [q \in Requests |-> NoRequest]

(***************************************************************************)
(* Specification of ingestion: single-writer runs and edits of the files.  *)
(***************************************************************************)
NoCk == [text |-> <<>>, chunk_size |-> 1, overlap |-> 0, applied |-> FALSE,
         result |-> <<>>]

Init ==
    /\ files = [p \in Paths |-> TextMany]
    /\ documents = {}
    /\ chunks = {}
    /\ index = {}
    /\ uuids = 0
    /\ run = [r \in Runs |-> IdleRun]
    /\ started = 0
    /\ faults = 0
    /\ last = IdleRun
    /\ chat = NoChat
    /\ ck = NoCk
    /\ OthersAtRest

\* main's loop calls process_document for one file at a time
StartRun(r, p) == AllIdle /\ Start(r, p) /\ UNCHANGED batch

Next ==
    \/ \E r \in Runs, p \in Paths : StartRun(r, p)
    \/ \E r \in Runs : DeleteOld(r)
    \/ \E r \in Runs : CreateDoc(r)
    \/ \E r \in Runs : Store(r)
    \/ \E r \in Runs : CreateChunk(r)
    \/ \E r \in Runs : MarkProcessed(r)
    \/ \E p \in Paths, content \in FileTexts : EditFile(p, content)

Spec == Init /\ [][Next]_vars

\* ingestion in an environment in which no call fails: the fault budget is
\* used up from the start
InitReliable ==
    /\ files = [p \in Paths |-> TextMany]
    /\ documents = {}
    /\ chunks = {}
    /\ index = {}
    /\ uuids = 0
    /\ run = [r \in Runs |-> IdleRun]
    /\ started = 0
    /\ faults = MaxFaults
    /\ last = IdleRun
    /\ chat = NoChat
    /\ ck = NoCk
    /\ OthersAtRest

SpecReliable == InitReliable /\ [][Next]_vars

(***************************************************************************)
(* Specification of the chunker: chunk_text applied to every short text.   *)
(***************************************************************************)
Texts == UNION {[1..n -> Alphabet] : n \in 0..MaxLen}

InitChunk ==
    /\ files = [p \in Paths |-> TextMany]
    /\ documents = {}
    /\ chunks = {}
    /\ index = {}
    /\ uuids = 0
    /\ run = [r \in Runs |-> IdleRun]
    /\ started = 0
    /\ faults = 0
    /\ last = IdleRun
    /\ chat = NoChat
    /\ ck \in [text : Texts, chunk_size : 1..MaxChunkSize, overlap : 0..MaxOverlap,
               applied : {FALSE}, result : {<<>>}]
    /\ OthersAtRest

ApplyChunkText ==
    /\ ~ck.applied
    /\ ck' = [ck EXCEPT !.applied = TRUE,
                        !.result = chunk_text(ck.text, ck.chunk_size, ck.overlap)]
    /\ UNCHANGED <<files, documents, chunks, index, uuids, run, started, faults, last, chat,
                   batch, collections, svc, req>>

NextChunk == ApplyChunkText

SpecChunk == InitChunk /\ [][NextChunk]_vars

(***************************************************************************)
(* Specification of the cleaner: clean_text applied to every short text of *)
(* letters, spaces, tabs and newlines; ck.result holds the cleaned text.    *)
(***************************************************************************)
CleanAlphabet == {"a", " ", "\t", "\n"}
CleanTexts == UNION {[1..n -> CleanAlphabet] : n \in 0..MaxLen}

InitClean ==
    /\ files = [p \in Paths |-> TextMany]
    /\ documents = {}
    /\ chunks = {}
    /\ index = {}
    /\ uuids = 0
    /\ run = [r \in Runs |-> IdleRun]
    /\ started = 0
    /\ faults = 0
    /\ last = IdleRun
    /\ chat = NoChat
    /\ ck \in [text : CleanTexts, chunk_size : {1}, overlap : {0},
               applied : {FALSE}, result : {<<>>}]
    /\ OthersAtRest

ApplyCleanText ==
    /\ ~ck.applied
    /\ ck' = [ck EXCEPT !.applied = TRUE, !.result = clean_text(ck.text)]
    /\ UNCHANGED <<files, documents, chunks, index, uuids, run, started, faults, last, chat,
                   batch, collections, svc, req>>

NextClean == ApplyCleanText

SpecClean == InitClean /\ [][NextClean]_vars

(***************************************************************************)
(* Specification of query time: get_context_aware_response called on the   *)
(* collections that fault-free ingestion of the files leaves behind.       *)
(***************************************************************************)
RECURSIVE persist_chunks(_, _, _, _, _, _)
\* the loop of lines 109-117 run to its end without a failing commit
persist_chunks(rows, chunk_data, vector_ids, doc_id, first_id, i) ==
    IF i >= Len(chunk_data) THEN rows
    ELSE persist_chunks(
             create_document_chunk(rows, first_id + i + 1, doc_id,
                 chunk_data[i + 1].index, chunk_data[i + 1].content,
                 chunk_data[i + 1].token_count,
                 IF i < Len(vector_ids) THEN vector_ids[i + 1] ELSE NullId),
             chunk_data, vector_ids, doc_id, first_id, i + 1)

\* process_document on a new path with no failing call, in one piece
ingest_new(st, p, content, seq) ==
    LET doc_id == st.uuids + 1
        chunk_data == chunk_document(content, IngestChunkSize, IngestOverlap)
        texts == [i \in 1..Len(chunk_data) |-> chunk_data[i].content]
        metadata == [i \in 1..Len(chunk_data) |->
                       [source_path |-> p, document_id |-> doc_id,
                        chunk_index |-> chunk_data[i].index]]
        stored == store_embeddings(st.index, texts, metadata, doc_id, TRUE, TRUE, seq)
    IN  [documents |-> update_document_processed_status(
                           create_document(st.documents, doc_id, p, stem(p),
                                           calculate_content_hash(content)),
                           doc_id, TRUE),
         chunks |-> persist_chunks(st.chunks, chunk_data, stored.ids, doc_id,
                                   doc_id + Len(texts), 0),
         index |-> stored.index,
         uuids |-> doc_id + 2 * Len(texts)]

EmptyStore == [documents |-> {}, chunks |-> {}, index |-> {}, uuids |-> 0]

\* the stores after the files named in `loaded` were ingested, a.md first
Loaded(loaded) ==
    LET st1 == IF "docs/a.md" \in DOMAIN loaded
               THEN ingest_new(EmptyStore, "docs/a.md", loaded["docs/a.md"], 1)
               ELSE EmptyStore
    IN  IF "docs/b.md" \in DOMAIN loaded
        THEN ingest_new(st1, "docs/b.md", loaded["docs/b.md"], 2)
        ELSE st1

Loadable == UNION {[S -> FileTexts] : S \in SUBSET Paths}

InitChat ==
    \E loaded \in Loadable :
        /\ files = [p \in Paths |-> IF p \in DOMAIN loaded THEN loaded[p] ELSE TextMany]
        /\ documents = Loaded(loaded).documents
        /\ chunks = Loaded(loaded).chunks
        /\ index = Loaded(loaded).index
        /\ uuids = Loaded(loaded).uuids
        /\ run = [r \in Runs |-> IdleRun]
        /\ started = 0
        /\ faults = 0
        /\ last = IdleRun
        /\ chat = NoChat
        /\ ck = NoCk
        /\ OthersAtRest

NextChat == \E m \in UserMessages, t \in SelectedTexts : Query(m, t)

SpecChat == InitChat /\ [][NextChat]_vars

(***************************************************************************)
(* Specification of main: one batch over a provisioned store.              *)
(***************************************************************************)
\* the files are short (TextOne); the documents ingested before the batch
\* hold any of the texts, so that the batch meets new, changed and unchanged
\* files
MainLoads == {loaded \in Loadable : DOMAIN loaded \subseteq {"docs/a.md"}}

InitMain ==
    \E loaded \in MainLoads :
        /\ files = [p \in Paths |-> TextOne]
        /\ documents = Loaded(loaded).documents
        /\ chunks = Loaded(loaded).chunks
        /\ index = Loaded(loaded).index
        /\ uuids = Loaded(loaded).uuids
        /\ run = [r \in Runs |-> IdleRun]
        /\ started = 0
        /\ faults = 0
        /\ last = IdleRun
        /\ chat = NoChat
        /\ ck = NoCk
        /\ batch = [NoBatch EXCEPT !.pc = "start"]
        /\ collections = {DocumentChunks}
        /\ svc = [s \in Services |-> ReadySvc]
        /\ req = [q \in Requests |-> NoRequest]

NextMain ==
    \/ MainStart
    \/ LoopCall
    \/ \E r \in Runs : DeleteOld(r)
    \/ \E r \in Runs : CreateDoc(r)
    \/ \E r \in Runs : Store(r)
    \/ \E r \in Runs : CreateChunk(r)
    \/ \E r \in Runs : MarkProcessed(r)
    \/ LoopEnd

\* main is one sequential process: a step it can take, it takes
SpecMain == InitMain /\ [][NextMain]_vars /\ WF_vars(NextMain)

(***************************************************************************)
(* Specification of concurrent ingestion: several processes run            *)
(* process_document at once, in an environment in which no call fails.     *)
(***************************************************************************)
Workers == 1..NumWorkers

\* a process calls process_document whatever the other processes are doing:
\* the function takes no lock
StartWorker(r, p) == Start(r, p) /\ UNCHANGED batch

\* the stores a finished ingestion left, its points marked as written
\* before the runs of this specification (written_by = 0)
LoadedBefore(loaded) ==
    [Loaded(loaded) EXCEPT
        !.index = {[pt EXCEPT !.written_by = 0] : pt \in Loaded(loaded).index}]

InitConcurrent ==
    \E loaded \in MainLoads :
        /\ files = [p \in Paths |-> TextOne]
        /\ documents = LoadedBefore(loaded).documents
        /\ chunks = LoadedBefore(loaded).chunks
        /\ index = LoadedBefore(loaded).index
        /\ uuids = LoadedBefore(loaded).uuids
        /\ run = [r \in Workers |-> IdleRun]
        /\ started = 0
        /\ faults = MaxFaults
        /\ last = IdleRun
        /\ chat = NoChat
        /\ ck = NoCk
        /\ OthersAtRest

NextConcurrent ==
    \/ \E r \in Workers, p \in Paths : StartWorker(r, p)
    \/ \E r \in Workers : DeleteOld(r)
    \/ \E r \in Workers : CreateDoc(r)
    \/ \E r \in Workers : Store(r)
    \/ \E r \in Workers : CreateChunk(r)
    \/ \E r \in Workers : MarkProcessed(r)

SpecConcurrent == InitConcurrent /\ [][NextConcurrent]_vars

(***************************************************************************)
(* Specification of construction: VectorStoreService objects are built,    *)
(* one after another and at once, against one server.                      *)
(***************************************************************************)
CollectionLoads ==
    {loaded \in Loadable :
        /\ DOMAIN loaded \subseteq {"docs/a.md"}
        /\ \A p \in DOMAIN loaded : loaded[p] = TextOne}

InitCollection ==
    \E loaded \in CollectionLoads,
       colls \in SUBSET {OtherCollection, DocumentChunks, EarlierChunks} :
        /\ Cardinality({col \in colls : col.name = collection_name}) <= 1
        /\ collection_exists(colls) \/ DOMAIN loaded = {}
        /\ files = [p \in Paths |-> TextMany]
        /\ documents = Loaded(loaded).documents
        /\ chunks = Loaded(loaded).chunks
        /\ index = Loaded(loaded).index
        /\ uuids = Loaded(loaded).uuids
        /\ run = [r \in Runs |-> IdleRun]
        /\ started = 0
        /\ faults = 0
        /\ last = IdleRun
        /\ chat = NoChat
        /\ ck = NoCk
        /\ batch = NoBatch
        /\ collections = colls
        /\ svc = [s \in Services |-> NoSvc]
        /\ req = [q \in Requests |-> NoRequest]

NextCollection ==
    \/ \E s \in Services : Construct(s)
    \/ \E s \in Services : GetCollections(s)
    \/ \E s \in Services : CreateCollection(s)
    \/ \E s \in Services : UpsertPoint(s)

SpecCollection == InitCollection /\ [][NextCollection]_vars

(***************************************************************************)
(* Specification of serving: chat requests run at once on the collections  *)
(* that fault-free ingestion left behind.                                  *)
(***************************************************************************)
\* the collections hold the chunks of none, one or both of the files
ServeLoads == {loaded \in Loadable : \A p \in DOMAIN loaded : loaded[p] = TextMany}

InitServe ==
    \E loaded \in ServeLoads :
        /\ files = [p \in Paths |-> TextMany]
        /\ documents = Loaded(loaded).documents
        /\ chunks = Loaded(loaded).chunks
        /\ index = Loaded(loaded).index
        /\ uuids = Loaded(loaded).uuids
        /\ run = [r \in Runs |-> IdleRun]
        /\ started = 0
        /\ faults = 0
        /\ last = IdleRun
        /\ chat = NoChat
        /\ ck = NoCk
        /\ OthersAtRest

NextServe ==
    \/ \E q \in Requests, m \in ServeMessages, t \in SelectedTexts : Receive(q, m, t)
    \/ \E q \in Requests : Search(q)
    \/ \E q \in Requests : Respond(q)

SpecServe == InitServe /\ [][NextServe]_vars

(***************************************************************************)
(* Properties.                                                             *)
(***************************************************************************)
PointsOf(source_path) == {pt \in index : pt.payload.source_path = source_path}

\* some environment call of the run failed
RunFailed(rec) ==
    ~rec.read_ok \/ ~rec.delete_ok \/ ~rec.embed_ok \/ ~rec.upsert_ok \/ ~rec.db_ok

\* the step is the start of a call of process_document on path p
StartsOn(p) ==
    /\ started' = started + 1
    /\ \/ last'.seq = started + 1 /\ last'.path = p
       \/ \E r \in Runs : run'[r].seq = started + 1 /\ run'[r].path = p

\* C1: between single-writer runs, for every Document with is_processed the
\* vector_ids of its DocumentChunk rows are exactly the ids of the index
\* points tagged with its source_path.
C1_ChunksMatchIndex ==
    AllIdle =>
        \A d \in documents :
            d.is_processed =>
                {c.vector_id : c \in get_document_chunks(chunks, d.id)}
                    = {pt.id : pt \in PointsOf(d.source_path)}

\* C2: a call of process_document on a path whose Document already stores
\* the hash of the current content ends at once and writes nothing:
\* documents, document_chunks and the index stay as they were.
C2_UnchangedIsNoOp ==
    [][\A p \in Paths :
          (/\ StartsOn(p)
           /\ \E d \in documents :
                 /\ d.source_path = p
                 /\ d.content_hash = calculate_content_hash(files[p]))
          => /\ documents' = documents
             /\ chunks' = chunks
             /\ index' = index
             /\ \A r \in Runs : run'[r].pc = "idle"]_vars

\* a processed document with chunk rows was ingested again, unchanged
C2_Witness ==
    /\ last.kind = "unchanged"
    /\ last.pre_doc.is_processed
    /\ get_document_chunks(chunks, last.pre_doc.id) # {}
    /\ PointsOf(last.path) # {}

\* C3: after a changed document was re-ingested, every index point tagged
\* with its source_path was written by that latest run (no stale point).
C3_NoStalePoints ==
    (AllIdle /\ last.kind = "changed" /\ last.result = "ok")
        => \A pt \in PointsOf(last.path) : pt.written_by = last.seq

\* C4: after a changed document was re-ingested into N chunks, its
\* DocumentChunk rows are exactly N rows, chunk_index 0..N-1 once each, with
\* the new content.
C4_RowsReplaced ==
    (AllIdle /\ last.kind = "changed" /\ last.result = "ok")
        => LET rows == get_document_chunks(chunks, last.doc_id)
               N == Len(last.chunk_data)
           IN  /\ Cardinality(rows) = N
               /\ \A i \in 0..(N - 1) :
                     \E c \in rows : /\ c.chunk_index = i
                                     /\ c.content = last.chunk_data[i + 1].content

\* C5: a run sets is_processed only after, for every chunk of the run, the
\* embedding was made and upserted (the index holds a point the run wrote
\* for the chunk) and the row was persisted with that point's vector_id.
C5_ProcessedOnlyAfterSuccess ==
    last.marked =>
        \A i \in 1..Len(last.chunk_data) :
            \E pt \in index :
                /\ pt.written_by = last.seq
                /\ pt.payload.chunk_index = i - 1
                /\ \E c \in get_document_chunks(chunks, last.doc_id) :
                      c.chunk_index = i - 1 /\ c.vector_id = pt.id

\* C6: after a run in which a step failed, the Document of the path has the
\* content_hash and is_processed it had before the run; and a hash that a
\* run newly stored was stored by a run whose steps all succeeded.
C6_FailedKeepsState ==
    (AllIdle /\ last.seq > 0) =>
        /\ (RunFailed(last) /\ last.pre_doc # NoDoc)
              => \E d \in documents :
                    /\ d.id = last.pre_doc.id
                    /\ d.content_hash = last.pre_doc.content_hash
                    /\ d.is_processed = last.pre_doc.is_processed
        /\ (/\ last.kind \in {"new", "changed"}
            /\ \E d \in documents : /\ d.source_path = last.path
                                    /\ d.content_hash = last.content_hash)
              => (~RunFailed(last) /\ last.result = "ok")

\* C7: whenever an explicit_text is provided, it alone is the context and
\* search_similar is not invoked.
C7_ExplicitAlwaysWins ==
    (chat.calls > 0 /\ chat.selected_text.given)
        => /\ chat.context_texts = <<chat.selected_text.text>>
           /\ chat.search_calls = 0

\* C7 (amended): whenever a non-empty explicit_text is provided, it alone,
\* verbatim, is the context and search_similar is not invoked.
C7_NonEmptyExplicitWins ==
    (chat.calls > 0 /\ chat.selected_text.given /\ chat.selected_text.text # <<>>)
        => /\ chat.context_texts = <<chat.selected_text.text>>
           /\ chat.context_used = <<chat.selected_text.text>>
           /\ chat.context = chat.selected_text.text
           /\ chat.search_calls = 0
           /\ chat.search_results = <<>>

\* a non-empty selection was given while the index holds points
C7_Witness ==
    /\ chat.calls > 0
    /\ chat.selected_text.given
    /\ chat.selected_text.text # <<>>
    /\ index # {}

\* C8: without explicit text, search_similar runs once with k = 5 and the
\* context is the texts of the first min(3, n) results in returned order.
C8_TopThreeOfFive ==
    (chat.calls > 0 /\ ~chat.selected_text.given) =>
        LET n == Len(chat.search_results)
            m == IF n < 3 THEN n ELSE 3
        IN  /\ chat.search_calls = 1
            /\ chat.search_limit = 5
            /\ n <= 5
            /\ chat.context_used = [i \in 1..m |-> chat.search_results[i].text]
            /\ chat.context = join(<<"\n", "\n">>,
                                   [i \in 1..m |-> chat.search_results[i].text])

\* five hits were returned and three of them used
C8_Witness ==
    /\ chat.calls > 0
    /\ ~chat.selected_text.given
    /\ Len(chat.search_results) = 5
    /\ Len(chat.context_used) = 3

\* C9: every chunk chunk_text returns is at most chunk_size long, unless
\* it is a single oversized sentence or word; no chunk of two or more
\* words that each fit exceeds chunk_size.
C9_ChunkBound ==
    ck.applied =>
        \A i \in 1..Len(ck.result) :
            LET c == ck.result[i]
                words == split(c)
                sentences == split_sentences(ck.text)
            IN  Len(c) > ck.chunk_size =>
                    /\ \/ Len(words) = 1
                       \/ \E j \in 1..Len(sentences) : strip(sentences[j]) = c
                    /\ ~(/\ Len(words) >= 2
                         /\ \A k \in 1..Len(words) : Len(words[k]) <= ck.chunk_size)

\* C10: for overlap n > 0, each chunk starts with the last n words of the
\* chunk before it (with all its words when it has fewer than n).
C10_Overlap ==
    (ck.applied /\ ck.overlap > 0) =>
        \A i \in 1..(Len(ck.result) - 1) :
            LET a == split(ck.result[i])
                b == split(ck.result[i + 1])
                k == Min(Len(a), ck.overlap)
            IN  /\ Len(b) >= k
                /\ SubSeq(b, 1, k) = SubSeq(a, Len(a) - k + 1, Len(a))

\* C11: in main's loop a failure of one call of process_document never
\* aborts the batch: every file of the discovered list is handed to
\* process_document exactly once, in list order, whatever the earlier calls
\* did, and the run reaches its end.
C11_BatchIsolation ==
    /\ [](/\ batch.pc # "aborted"
          /\ batch.pos <= Len(batch.md_files)
          /\ batch.passed = SubSeq(batch.md_files, 1, batch.pos)
          /\ started = (IF batch.pc = "start" THEN 0 ELSE batch.pos)
          /\ batch.pc = "done" => /\ batch.passed = batch.md_files
                                  /\ Len(batch.outcomes) = Len(batch.md_files))
    /\ <>(batch.pc = "done")

\* the batch ended after the call on its first file had raised and the
\* call on its second file had returned
C11_Witness ==
    /\ batch.pc = "done"
    /\ Len(batch.md_files) = 2
    /\ batch.outcomes = <<"error", "ok">>

\* C12: a failing embedding-provider or vector-store call inside
\* store_embeddings or delete_by_source_path does not reach the caller and
\* makes the call a no-op: the index is left as it was, and store_embeddings
\* reports no stored ids.
C12_FailureIsNoOp ==
    [][\A r \in Runs :
          /\ (run[r].pc = "delete" /\ run'[r].pc = "store" /\ ~run'[r].delete_ok)
                => index' = index
          /\ (/\ run[r].pc = "store"
              /\ run'[r].pc = "chunks"
              /\ ~run'[r].embed_ok \/ ~run'[r].upsert_ok)
                => (index' = index /\ run'[r].vector_ids = <<>>)]_vars

\* C13: delete_by_source_path(p), when the store reports no error, removes
\* every point whose payload source_path is p, however many there are, and
\* no point of another source_path; a listing filtered by p is empty
\* afterwards.
C13_DeleteRemovesAll ==
    [][\A r \in Runs :
          (run[r].pc = "delete" /\ run'[r].pc = "store" /\ run'[r].delete_ok)
              => /\ scroll(index', run[r].path).records = {}
                 /\ {pt \in index' : pt.payload.source_path # run[r].path}
                      = {pt \in index : pt.payload.source_path # run[r].path}]_vars

\* C14: when no explicit text is given and search_similar yields no result,
\* because the index holds no point or because the embedding or the store
\* call failed, get_context_aware_response uses an empty context, builds
\* the general-knowledge prompt and reports no sources; a failed call gives
\* the outcome that an empty index gives.
C14_NoResultsFallback ==
    /\ (chat.calls > 0 /\ ~chat.selected_text.given /\ chat.search_results = <<>>)
          => /\ chat.context_texts = <<>>
             /\ chat.context_used = <<>>
             /\ chat.context = <<>>
             /\ chat.prompt = "general"
             /\ chat.sources = <<>>
    /\ \A m \in UserMessages, provider_ok \in BOOLEAN, store_ok \in BOOLEAN,
          llm_ok \in BOOLEAN :
          ~(provider_ok /\ store_ok)
              => get_context_aware_response(index, m, None, provider_ok, store_ok, llm_ok)
                   = get_context_aware_response({}, m, None, TRUE, TRUE, llm_ok)

\* a query without explicit text got no result from an index that holds
\* points: the embedding or the store call had failed
C14_Witness ==
    /\ chat.calls > 0
    /\ ~chat.selected_text.given
    /\ chat.search_calls = 1
    /\ chat.search_results = <<>>
    /\ chat.response = "answer"
    /\ index # {}

\* the text consists of whitespace only (the empty text included)
AllWhitespace(text) == \A i \in 1..Len(text) : text[i] \in Whitespace

\* chunk c ends with the sentence s
EndsWith(c, s) == Len(s) <= Len(c) /\ SubSeq(c, Len(c) - Len(s) + 1, Len(c)) = s

\* C15: chunk_text returns the empty sequence for the empty text and for
\* every whitespace-only text, for every chunk_size and overlap, and never
\* returns a sequence that holds an empty chunk.
C15_NoEmptyChunk ==
    ck.applied =>
        /\ AllWhitespace(ck.text) => ck.result = <<>>
        /\ \A i \in 1..Len(ck.result) : ck.result[i] # <<>>

\* C16: for every text whose sentences are each at most chunk_size long,
\* every chunk chunk_text returns ends at the end of a sentence of the text
\* and is at most chunk_size long (the empty chunk of C15 left aside).
C16_SentencesNotSplit ==
    LET sentences == split_sentences(ck.text)
    IN  (/\ ck.applied
         /\ \A j \in 1..Len(sentences) : Len(sentences[j]) <= ck.chunk_size)
            => \A i \in 1..Len(ck.result) :
                  ck.result[i] # <<>> =>
                      /\ Len(ck.result[i]) <= ck.chunk_size
                      /\ \E j \in 1..Len(sentences) :
                            /\ strip(sentences[j]) # <<>>
                            /\ EndsWith(ck.result[i], strip(sentences[j]))

\* every process has left process_document
AllFinished == \A r \in DOMAIN run : run[r].pc = "idle"

\* the invariant of the data model for Document d: the vector_ids of its
\* rows are the ids of the live points tagged with its source_path
RowsMatchPoints(d) ==
    {c.vector_id : c \in get_document_chunks(chunks, d.id)}
        = {pt.id : pt \in PointsOf(d.source_path)}

C18_UniqueSourcePath ==
    \A d1, d2 \in documents : d1.source_path = d2.source_path => d1 = d2

\* C19: query-time retrieval is read-only and keeps no state between calls:
\* whatever requests run at once, no step of a request adds, overwrites or
\* deletes an index point or writes a Document or DocumentChunk row, and
\* the outcome of every request is the one its own inputs and the index
\* give.
C19_QueriesReadOnly ==
    [][/\ index' = index
       /\ collections' = collections
       /\ documents' = documents
       /\ chunks' = chunks
       /\ chat' # chat =>
             \E provider_ok \in BOOLEAN, store_ok \in BOOLEAN, llm_ok \in BOOLEAN :
                 chat' = get_context_aware_response(index, chat'.user_message,
                             chat'.selected_text, provider_ok, store_ok, llm_ok)]_vars

\* a request was answered from search results while a request with another
\* message, whose search had failed, was still in flight
C19_Witness ==
    /\ chat.calls > 0
    /\ chat.search_calls = 1
    /\ chat.search_results # <<>>
    /\ \E q \in Requests :
          /\ req[q].pc = "respond"
          /\ req[q].search_calls = 1
          /\ req[q].search_results = <<>>
          /\ req[q].user_message # chat.user_message
    /\ index # {}

\* the collections named document_chunks
ChunkCollections(colls) == {col \in colls : col.name = collection_name}

metadata_of(pt) ==
    [source_path |-> pt.payload.source_path,
     document_id |-> pt.payload.document_id,
     chunk_index |-> pt.payload.chunk_index]

\* C21: search_similar(query, k) returns at most k results, one per hit of
\* the store and in the store's ranked order: result i carries the id, the
\* score, the text and the metadata of the i-th nearest index point, no hit
\* is dropped, duplicated or moved, and the scores are non-increasing. The
\* results of the latest chat call are such a list (or none at all when the
\* call failed).
C21_ResultOrdering ==
    /\ \A m \in UserMessages, k \in 1..SearchLimit :
          LET results == search_similar(index, m, k, TRUE, TRUE)
              hits == client_search(index, m, k)
          IN  /\ Len(results) <= k
              /\ Len(results) = Min(k, Cardinality(index))
              /\ Len(results) = Len(hits)
              /\ \A i \in 1..Len(results) :
                    /\ results[i].id = hits[i].id
                    /\ \E pt \in index :
                          /\ pt.id = results[i].id
                          /\ results[i].text = pt.payload.text
                          /\ results[i].score = Score(pt, m)
                          /\ results[i].metadata = metadata_of(pt)
                          /\ \A other \in index :
                                Score(other, m) > Score(pt, m)
                                    => \E j \in 1..(i - 1) : results[j].id = other.id
              /\ \A i, j \in 1..Len(results) :
                    /\ i < j => results[i].score >= results[j].score
                    /\ i # j => results[i].id # results[j].id
    /\ chat.search_calls = 1
          => chat.search_results \in
                {<<>>, search_similar(index, chat.user_message, chat.search_limit,
                                      TRUE, TRUE)}

\* a search on an index of more than five points returned five hits whose
\* scores differ
C21_Witness ==
    /\ chat.search_calls = 1
    /\ Cardinality(index) > SearchLimit
    /\ Len(chat.search_results) = SearchLimit
    /\ chat.search_results[1].score > chat.search_results[SearchLimit].score

\* s[i..j] is a paragraph break: a blank line (two newlines with nothing but
\* whitespace between them) that stands between two words
ParagraphBreak(s, i, j) ==
    /\ 1 < i /\ i < j /\ j < Len(s)
    /\ s[i] = "\n" /\ s[j] = "\n"
    /\ \A k \in i..j : s[k] \in Whitespace
    /\ \E k \in 1..(i - 1) : s[k] \notin Whitespace
    /\ \E k \in (j + 1)..Len(s) : s[k] \notin Whitespace

\* the blank lines of s: the positions at which two newlines follow each
\* other
BlankLines(s) == {i \in 1..(Len(s) - 1) : s[i] = "\n" /\ s[i + 1] = "\n"}

\* C22: clean_text turns every run of spaces and tabs into one space and
\* every run of blank lines into one blank line: the cleaned text holds no
\* tab, no two spaces in a row and no three newlines in a row, and a text
\* with a paragraph break between two words still has a blank line where
\* the break was.
C22_CleanKeepsParagraphs ==
    ck.applied =>
        /\ \A i \in 1..Len(ck.result) : ck.result[i] # "\t"
        /\ \A i \in 1..(Len(ck.result) - 1) :
              ~(ck.result[i] = " " /\ ck.result[i + 1] = " ")
        /\ \A i \in 1..(Len(ck.result) - 2) :
              ~(ck.result[i] = "\n" /\ ck.result[i + 1] = "\n" /\ ck.result[i + 2] = "\n")
        /\ (\E i, j \in 1..Len(ck.text) : ParagraphBreak(ck.text, i, j))
              => BlankLines(ck.result) # {}

\* the keys every payload has to carry
PayloadKeys == {"source_path", "document_id", "chunk_index", "text"}

\* C23: every point that a run of process_document writes to the index
\* carries a payload with source_path, document_id, chunk_index and text:
\* source_path is the path the run ingests, document_id the id of the
\* Document of that path, chunk_index the 0-based position of a chunk of the
\* file's content and text that chunk's content.
C23_PayloadComplete ==
    [][\A r \in Runs :
          (run[r].pc = "store" /\ run'[r].pc = "chunks")
              => LET written == index' \ index
                     cs == chunk_text(run[r].content, IngestChunkSize, IngestOverlap)
                 IN  \A pt \in written :
                           /\ PayloadKeys \subseteq DOMAIN pt.payload
                           /\ pt.payload.source_path = run[r].path
                           /\ pt.payload.document_id = run[r].doc_id
                           /\ \E d \in documents : /\ d.id = pt.payload.document_id
                                                    /\ d.source_path = run[r].path
                           /\ pt.payload.chunk_index \in 0..(Len(cs) - 1)
                           /\ pt.payload.text = cs[pt.payload.chunk_index + 1]]_vars

\* a run has written the three points of a file of three chunks
C23_Witness ==
    \E r \in Runs :
        /\ run[r].pc = "chunks"
        /\ Len(run[r].chunk_data) = 3
        /\ {pt.payload.chunk_index : pt \in {x \in index : x.written_by = run[r].seq}}
              = {0, 1, 2}

\* the points of the path that the call rec wrote, and those written before
NewPoints(rec) == {pt \in PointsOf(rec.path) : pt.written_by = rec.seq}
OldPoints(rec) == {pt \in PointsOf(rec.path) : pt.written_by # rec.seq}

\* C24: while and after a single writer re-ingests a changed document, the
\* index points of its source_path are all of the old content, or none, or
\* all of the new content: points of the old and of the new content never
\* stand side by side, also when the delete call failed; and no point of the
\* new content is written before the delete step was taken.
C24_OldNewNeverCoexist ==
    /\ \A r \in Runs :
          run[r].kind = "changed"
              => /\ ~(NewPoints(run[r]) # {} /\ OldPoints(run[r]) # {})
                 /\ run[r].pc = "delete" => NewPoints(run[r]) = {}
    /\ (AllIdle /\ last.kind = "changed")
          => ~(NewPoints(last) # {} /\ OldPoints(last) # {})

\* a call of process_document on path p is under way
InProgressOn(p) == \E r \in Runs : run[r].pc # "idle" /\ run[r].path = p

\* C25: a Document that a run left with is_processed = false is skipped by
\* every later call of process_document as long as its stored content_hash
\* is the hash of the file's content: the call ends at once and writes
\* nothing, whatever is_processed says, and the row stays as it is through
\* the runs on other paths too; once the content differs from the stored
\* hash, a call on the path takes the changed branch again.
C25_NoRetryWhileHashCurrent ==
    [][\A d \in documents :
          (~d.is_processed /\ ~InProgressOn(d.source_path)) =>
              LET p == d.source_path
                  current == d.content_hash = calculate_content_hash(files[p])
              IN  /\ (current /\ StartsOn(p))
                        => /\ documents' = documents
                           /\ chunks' = chunks
                           /\ index' = index
                           /\ \A r \in Runs : run'[r].pc = "idle"
                           /\ last'.kind \in {"unchanged", "unread"}
                  /\ (current /\ files'[p] = files[p]) => d \in documents'
                  /\ (~current /\ StartsOn(p))
                        => \/ last'.seq = started + 1 /\ last'.kind = "unread"
                           \/ \E r \in Runs : /\ run'[r].pc = "delete"
                                               /\ run'[r].kind = "changed"
                                               /\ run'[r].doc_id = d.id]_vars

\* a run that failed after the hash was stored left the Document
\* unprocessed, and the next run on the unchanged file skipped it
C25_Witness ==
    /\ AllIdle
    /\ last.kind = "unchanged"
    /\ ~last.pre_doc.is_processed
    /\ \E d \in documents : /\ d.id = last.pre_doc.id
                             /\ ~d.is_processed
                             /\ d.content_hash = calculate_content_hash(files[d.source_path])

\* the positions of the calls of kind op in the trace of the call rec
CallsAt(rec, op) == {i \in 1..Len(rec.calls) : rec.calls[i].op = op}

\* the call rec got as far as store_embeddings
ReachedStore(rec) ==
    /\ rec.kind \in {"new", "changed"}
    /\ rec.doc_id # NullId
    /\ rec.pc \notin {"delete", "create", "store"}

\* C26: a call of process_document on a new or changed document makes
\* exactly one request to the embedding provider, whose input is the list of
\* all chunk texts of the document; the request comes after the delete step
\* (when there is one) and before the upsert. A call on an unchanged
\* document, and a call that has not reached store_embeddings, makes none.
C26_OneBatchedRequest ==
    \A rec \in {run[r] : r \in Runs} \cup {last} :
        LET requests == CallsAt(rec, "embeddings.create")
        IN  /\ Cardinality(requests) <= 1
            /\ ~ReachedStore(rec) => requests = {}
            /\ ReachedStore(rec) =>
                  /\ Cardinality(requests) = 1
                  /\ \A i \in requests :
                        /\ rec.calls[i].input
                              = [k \in 1..Len(rec.chunk_data) |-> rec.chunk_data[k].content]
                        /\ rec.calls[i].input
                              = chunk_text(rec.content, IngestChunkSize, IngestOverlap)
                        /\ \A j \in CallsAt(rec, "scroll") : j < i
                        /\ \A j \in CallsAt(rec, "upsert") : i < j
                  /\ rec.kind = "changed" <=> CallsAt(rec, "scroll") # {}
                  /\ Cardinality(CallsAt(rec, "upsert")) = 1

\* a changed document of three chunks was ingested again: delete step, one
\* request for the three texts, upsert
C26_Witness ==
    /\ last.kind = "changed"
    /\ last.result = "ok"
    /\ Len(last.chunk_data) = 3
    /\ Len(last.calls) = 3
    /\ Len(last.calls[2].input) = 3

\* the source_paths that have a Document row
DocumentPaths(docs) == {d.source_path : d \in docs}

\* C27: no step of the pipeline, in a run that succeeds or in one that
\* fails, deletes a Document row: a row is created by the first ingestion
\* of its path and keeps its id, source_path and title afterwards, only
\* content_hash and is_processed change, and the set of source_paths that
\* have a Document row never shrinks.
C27_DocumentsNeverDeleted ==
    [][/\ DocumentPaths(documents) \subseteq DocumentPaths(documents')
       /\ \A d \in documents :
             \E d2 \in documents' : /\ d2.id = d.id
                                    /\ d2.source_path = d.source_path
                                    /\ d2.title = d.title
       /\ \A d2 \in documents' :
             (\A d \in documents : d.id # d2.id)
                 => /\ d2.source_path \notin DocumentPaths(documents)
                    /\ ~d2.is_processed
                    /\ \E r \in Runs : /\ run[r].pc = "create"
                                        /\ run[r].path = d2.source_path]_vars

\* a changed document was re-ingested in a run that failed: its row is
\* still there, under its id, with the new hash
C27_Witness ==
    /\ AllIdle
    /\ last.kind = "changed"
    /\ last.result = "error"
    /\ \E d \in documents : /\ d.id = last.pre_doc.id
                             /\ d.source_path = last.path
                             /\ d.content_hash # last.pre_doc.content_hash

\* C28: every vector_id that is not None in a DocumentChunk row is the id
\* of a point of the index, written by the run that made the row, whose
\* payload has the row's document_id and chunk_index and the row's content
\* as text; also when the embedding provider failed.
C28_VectorIdsPointAtPoints ==
    \A c \in chunks :
        c.vector_id # NullId =>
            \E pt \in index :
                /\ pt.id = c.vector_id
                /\ pt.payload.document_id = c.document_id
                /\ pt.payload.chunk_index = c.chunk_index
                /\ pt.payload.text = c.content

RECURSIVE concat(_)
\* the lists of a list of lists, one after the other
concat(lists) == IF lists = <<>> THEN <<>> ELSE Head(lists) \o concat(Tail(lists))

\* the words of each chunk
chunk_words(result) == [i \in 1..Len(result) |-> split(result[i])]

RECURSIVE InInputOrder(_, _, _, _, _)
\* the chunks cs[i..] can be laid over the words of the input one after the
\* other: each is a run of consecutive input words, no chunk starts before
\* the chunk in front of it (start `from`), and no input word is left out
\* (`covered` words are covered so far)
InInputOrder(cs, i, words, from, covered) ==
    IF i > Len(cs) THEN covered >= Len(words)
    ELSE IF cs[i] = <<>> THEN InInputOrder(cs, i + 1, words, from, covered)
    ELSE \E start \in from..Min(covered + 1, Len(words) - Len(cs[i]) + 1) :
            LET end == start + Len(cs[i]) - 1
            IN  /\ SubSeq(words, start, end) = cs[i]
                /\ InInputOrder(cs, i + 1, words, start,
                                IF end > covered THEN end ELSE covered)

\* C29: chunk_text loses and reorders no content: every word of the text
\* is in some chunk, every chunk is a run of consecutive words of the text
\* and the chunks follow one another in the order of the text; with
\* overlap = 0 the words of the chunks, one chunk after the other, are the
\* words of the text, each once.
C29_NoWordLostOrMoved ==
    ck.applied =>
        LET words == split(ck.text)
            cs == chunk_words(ck.result)
        IN  /\ \A k \in 1..Len(words) :
                  \E i \in 1..Len(cs), j \in 1..Len(words) :
                      j <= Len(cs[i]) /\ cs[i][j] = words[k]
            /\ InInputOrder(cs, 1, words, 1, 0)
            /\ ck.overlap = 0 => concat(cs) = words

\* a text of three words and more was cut, with overlap, into three chunks
\* and more, one of which was re-split at word boundaries
C29_Witness ==
    /\ ck.applied
    /\ ck.overlap > 0
    /\ Len(split(ck.text)) >= 3
    /\ Len(ck.result) >= 3
    /\ \E i \in 1..Len(ck.result) : Len(split(ck.result[i])) >= 2
    /\ Len(concat(chunk_words(ck.result))) > Len(split(ck.text))

\* the step is the delete step of a call of process_document
DeleteStep == \E r \in Runs : run[r].pc = "delete" /\ run'[r].pc = "store"

\* C30: store_embeddings only adds points, under ids that were not in use:
\* a call leaves every point that was in the index as it was, a call whose
\* provider and store calls succeed adds exactly one point per text and
\* hands back the ids of these points, and no step of the pipeline other
\* than the delete step takes a point out of the index or changes one.
C30_StoreOnlyAdds ==
    [][/\ \A r \in Runs :
             (run[r].pc = "store" /\ run'[r].pc = "chunks") =>
                 LET written == index' \ index
                     n == Len(run'[r].chunk_data)
                 IN  /\ index \subseteq index'
                     /\ \A pt \in written :
                           /\ \A old \in index : old.id # pt.id
                           /\ \A d \in documents : d.id # pt.id
                           /\ \A c \in chunks : c.id # pt.id /\ c.vector_id # pt.id
                     /\ (run'[r].embed_ok /\ run'[r].upsert_ok)
                           => /\ Cardinality(index') = Cardinality(index) + n
                              /\ Len(run'[r].vector_ids) = n
                              /\ {run'[r].vector_ids[i] : i \in 1..n}
                                    = {pt.id : pt \in written}
       /\ ~DeleteStep => index \subseteq index']_vars

\* a call stored the three points of a file in an index that held points
\* already, and these are still there
C30_Witness ==
    \E r \in Runs :
        /\ run[r].pc = "chunks"
        /\ run[r].embed_ok /\ run[r].upsert_ok
        /\ Cardinality({pt \in index : pt.written_by = run[r].seq}) = 3
        /\ \E pt \in index : pt.written_by # run[r].seq

====
